---- MODULE Spec2Model ----
(***************************************************************************)
(* A model of jvozip (src/jvozip.py): the bit Packer and Unpacker, the     *)
(* Huffman tree construction, HuffmanTree.compress and decompress.         *)
(*                                                                         *)
(* Bit strings (Python str of '0'/'1') are sequences over {0, 1}.  Bytes   *)
(* objects are sequences over 0..255.  Python's unbounded int used as the  *)
(* Packer buffer, and as the count of symbols decompress reads from the    *)
(* 32-bit field, is a big number: its binary digits most significant       *)
(* first, without leading zeros (0 is the empty sequence).                 *)
(***************************************************************************)
EXTENDS Integers, Sequences, FiniteSets, TLC

VARIABLES
    packer,      \* Packer: [buffer, bit_length]
    packed,      \* the <<content, length>> of the pack calls since the last flush
    flushed,     \* the flush that was the last call, if it was one: [done, bytes, calls]
    packError,   \* the last pack call raised AssertionError
    unpacker,    \* Unpacker: [data_bit_string, bit_index]
    unpacked,    \* the last unpack call: [called, failed, length, remaining, bit_string]
    pc,          \* where the compress / decompress run is
    data,        \* HuffmanTree.data, the input bytes
    nodes,       \* the list nodes of HuffmanTree.__init__
    blob,        \* the bytes handed to decompress
    kind,        \* "intact": blob is what compress returned; "truncated": a proper prefix
                 \* of it; "corrupted": it with one byte replaced
    dec          \* the locals of decompress (the counts of symbols are big numbers)

vars == <<packer, packed, flushed, packError, unpacker, unpacked,
          pc, data, nodes, blob, kind, dec>>

packerVars == <<packer, packed, flushed, packError>>
unpackerVars == <<unpacker, unpacked>>
codecVars == <<pc, data, nodes, blob, kind, dec>>

----------------------------------------------------------------------------
(* Bounds of the model. *)

MaxPacks == 3
MaxBytes == 2
MaxLen == 5

(* The values, widths and bytes the operations are driven with. *)
PackWidths == {0, 1, 3, 8}
PackValues == {0, 1, 5, 255}
UnpackWidths == {0, 1, 3, 8}
StreamBytes == {0, 165, 255}
Alphabet == {65, 66, 67}
CorruptBytes == {0, 1, 255}
\* b"AAAAABBBBCCCDD"
Example == <<65, 65, 65, 65, 65, 66, 66, 66, 66, 67, 67, 67, 68, 68>>

----------------------------------------------------------------------------
(* Integers and bit strings. *)

Min(a, b) == IF a < b THEN a ELSE b

\* '0' * n
Zeros(n) == SubSeq([i \in 1..n |-> 0], 1, n)

\* the binary digits of a non-negative int, no leading zeros (bin(n)[2:], 0 -> '')
RECURSIVE IntToBig(_)
IntToBig(n) == IF n = 0 THEN <<>> ELSE Append(IntToBig(n \div 2), n % 2)

RECURSIVE BigNorm(_)
BigNorm(b) ==
    IF b = <<>> THEN <<>>
    ELSE IF Head(b) = 0 THEN BigNorm(Tail(b)) ELSE b

\* buffer << n
BigShl(b, n) == IF b = <<>> THEN <<>> ELSE b \o Zeros(n)

\* buffer >> n
BigShr(b, n) == IF n >= Len(b) THEN <<>> ELSE SubSeq(b, 1, Len(b) - n)

\* digit by digit, for two digit strings of one length
OrDigits(a, b) ==
    SubSeq([i \in 1..Len(a) |-> IF a[i] = 1 \/ b[i] = 1 THEN 1 ELSE 0], 1, Len(a))

\* a | b
BigOr(a, b) ==
    LET n == IF Len(a) > Len(b) THEN Len(a) ELSE Len(b)
    IN BigNorm(OrDigits(Zeros(n - Len(a)) \o a, Zeros(n - Len(b)) \o b))

\* the value of the digits of a bit string, int(s, 2) for non-empty s
RECURSIVE BitsValue(_)
BitsValue(s) ==
    IF s = <<>> THEN 0
    ELSE 2 * BitsValue(SubSeq(s, 1, Len(s) - 1)) + s[Len(s)]

\* b & BYTEMASK, as an int
BigLowByte(b) == BitsValue(SubSeq(b, Len(b) - Min(Len(b), 8) + 1, Len(b)))

\* format(b, '08b')
Format08b(b) == LET d == IntToBig(b) IN Zeros(8 - Len(d)) \o d

----------------------------------------------------------------------------
(* class Packer *)

PackerNew == [buffer |-> <<>>, bit_length |-> 0]

\* content & (2 ** length - 1) == content, for content >= 0
PackFits(content, length) == Len(IntToBig(content)) <= length

PackerPack(p, content, length) ==
    [buffer |-> BigOr(BigShl(p.buffer, length), IntToBig(content)),
     bit_length |-> p.bit_length + length]

\* the padding without "or 8": a whole byte of padding on a byte boundary
PadBitsNoOr(bit_length) == 8 - (bit_length % 8)

\* 8 - (bit_length % 8 or 8)
PadBits(bit_length) == 8 - (IF bit_length % 8 # 0 THEN bit_length % 8 ELSE 8)

RECURSIVE FlushBytes(_, _)
FlushBytes(buffer, filled_bytes) ==
    IF filled_bytes > 0
    THEN <<BigLowByte(BigShr(buffer, (filled_bytes - 1) * 8))>>
             \o FlushBytes(buffer, filled_bytes - 1)
    ELSE <<>>

\* the bytes flush returns
PackerFlush(p) ==
    LET pad_bits == PadBits(p.bit_length)
        buffer == BigShl(p.buffer, pad_bits)
        bit_length == p.bit_length + pad_bits
    IN FlushBytes(buffer, bit_length \div 8)

----------------------------------------------------------------------------
(* class Unpacker *)

RECURSIVE DataBitString(_)
DataBitString(bs) ==
    IF bs = <<>> THEN <<>> ELSE Format08b(Head(bs)) \o DataBitString(Tail(bs))

UnpackerNew(bs) == [data_bit_string |-> DataBitString(bs), bit_index |-> 0]

is_empty(u) == u.bit_index >= Len(u.data_bit_string)

\* data_bit_string[bit_index:bit_index + length]
UnpackSlice(u, length) ==
    SubSeq(u.data_bit_string, u.bit_index + 1,
           Min(u.bit_index + length, Len(u.data_bit_string)))

UnpackAdvance(u, length) == [u EXCEPT !.bit_index = u.bit_index + length]

\* unpack(length): the assertion fails, or the slice is returned and the index moved
unpack(u, length) ==
    IF is_empty(u)
    THEN [failed |-> TRUE, bit_string |-> <<>>, unpacker |-> u]
    ELSE [failed |-> FALSE, bit_string |-> UnpackSlice(u, length),
          unpacker |-> UnpackAdvance(u, length)]

----------------------------------------------------------------------------
(* class Node and HuffmanTree.__init__ *)

\* content=None
None == -1

Leaf(occurences, content) == [content |-> content, occurences |-> occurences]

Parent(node1, node2) ==
    [content |-> None, occurences |-> node1.occurences + node2.occurences,
     left |-> node1, right |-> node2]

\* set(data)
SymbolsOf(d) == {d[i] : i \in DOMAIN d}

\* data.count(symbol)
Count(d, symbol) == Cardinality({i \in DOMAIN d : d[i] = symbol})

\* the orders in which a set can be iterated
Orders(S) ==
    {o \in [1..Cardinality(S) -> S] : \A i, j \in DOMAIN o : i # j => o[i] # o[j]}

\* the first node instead of the smallest
FirstIndex(ns) == 1

\* min(nodes, key=lambda n: n.occurences): the index of the first smallest node
MinIndex(ns) ==
    CHOOSE i \in DOMAIN ns :
        /\ \A j \in DOMAIN ns : ns[i].occurences <= ns[j].occurences
        /\ \A j \in 1..(i - 1) : ns[j].occurences > ns[i].occurences

\* nodes.remove(node), node being nodes[i]
RemoveAt(ns, i) == SubSeq(ns, 1, i - 1) \o SubSeq(ns, i + 1, Len(ns))

\* one iteration of the while loop of __init__
MergeNodes(ns) ==
    LET i1 == MinIndex(ns)
        node1 == ns[i1]
        rest1 == RemoveAt(ns, i1)
        i2 == MinIndex(rest1)
        node2 == rest1[i2]
        rest2 == RemoveAt(rest1, i2)
    IN Append(rest2, Parent(node1, node2))

----------------------------------------------------------------------------
(* Node.to_dict: the dict is its items in insertion order, <<symbol, code>> *)

DictHas(d, key) == \E i \in DOMAIN d : d[i][1] = key

DictGet(d, key) == d[CHOOSE i \in DOMAIN d : d[i][1] = key][2]

\* d[key] = value
DictSet(d, key, value) ==
    IF DictHas(d, key)
    THEN [i \in DOMAIN d |-> IF d[i][1] = key THEN <<key, value>> ELSE d[i]]
    ELSE Append(d, <<key, value>>)

\* left_dict.update(right_dict)
RECURSIVE DictUpdate(_, _)
DictUpdate(left_dict, right_dict) ==
    IF right_dict = <<>> THEN left_dict
    ELSE DictUpdate(DictSet(left_dict, Head(right_dict)[1], Head(right_dict)[2]),
                    Tail(right_dict))

\* to_dict with the right edge labelled like the left one
RECURSIVE to_dict_same_label(_, _)
to_dict_same_label(node, path) ==
    IF node.content # None
    THEN <<<<node.content, path>>>>
    ELSE DictUpdate(to_dict_same_label(node.left, Append(path, 0)),
                    to_dict_same_label(node.right, Append(path, 0)))

\* to_dict with two bits for each right edge
RECURSIVE to_dict_long_label(_, _)
to_dict_long_label(node, path) ==
    IF node.content # None
    THEN <<<<node.content, path>>>>
    ELSE DictUpdate(to_dict_long_label(node.left, Append(path, 0)),
                    to_dict_long_label(node.right, path \o <<1, 1>>))

RECURSIVE to_dict(_, _)
to_dict(node, path) ==
    IF node.content # None
    THEN <<<<node.content, path>>>>
    ELSE LET left_dict == IF "left" \in DOMAIN node
                          THEN to_dict(node.left, Append(path, 0)) ELSE <<>>
             right_dict == IF "right" \in DOMAIN node
                           THEN to_dict(node.right, Append(path, 1)) ELSE <<>>
         IN DictUpdate(left_dict, right_dict)

\* HuffmanTree.root, once __init__ has set it
Root == nodes[1]

\* HuffmanTree.to_dict()
CodingDict == to_dict(Root, <<>>)

----------------------------------------------------------------------------
(* HuffmanTree.compress *)

\* the packer after the pack calls, made in order (the test on bit_length has TLC
\* evaluate each call before the next one instead of nesting them all)
RECURSIVE PackAll(_, _)
PackAll(p, calls) ==
    IF calls = <<>> THEN p
    ELSE LET q == PackerPack(p, Head(calls)[1], Head(calls)[2])
         IN IF q.bit_length >= 0 THEN PackAll(q, Tail(calls)) ELSE q

RECURSIVE TableCalls(_)
TableCalls(coding_dict) ==
    IF coding_dict = <<>> THEN <<>>
    ELSE LET symbol == Head(coding_dict)[1]
             code == Head(coding_dict)[2]
         IN << <<symbol, 8>>, <<Len(code), 8>>, <<BitsValue(code), Len(code)>> >>
                \o TableCalls(Tail(coding_dict))

RECURSIVE PayloadCalls(_, _)
PayloadCalls(coding_dict, d) ==
    IF d = <<>> THEN <<>>
    ELSE LET code == DictGet(coding_dict, Head(d))
         IN << <<BitsValue(code), Len(code)>> >> \o PayloadCalls(coding_dict, Tail(d))

\* the pack calls with the count of symbols not lowered by one
CompressCallsFullCount(coding_dict, d) ==
    << <<Len(coding_dict), 8>> >>
        \o TableCalls(coding_dict)
        \o << <<Len(d), 32>> >>
        \o PayloadCalls(coding_dict, d)

\* the pack calls of compress, in order
CompressCalls(coding_dict, d) ==
    << <<Len(coding_dict) - 1, 8>> >>
        \o TableCalls(coding_dict)
        \o << <<Len(d), 32>> >>
        \o PayloadCalls(coding_dict, d)

\* int(code, 2) raises ValueError on the empty string
IntRaises(coding_dict) == \E i \in DOMAIN coding_dict : coding_dict[i][2] = <<>>

compress(coding_dict, d) ==
    LET calls == CompressCalls(coding_dict, d)
    IN IF IntRaises(coding_dict)
       THEN [ok |-> FALSE, error |-> "ValueError", bytes |-> <<>>]
       ELSE IF \E i \in DOMAIN calls : ~PackFits(calls[i][1], calls[i][2])
       THEN [ok |-> FALSE, error |-> "AssertionError", bytes |-> <<>>]
       ELSE [ok |-> TRUE, error |-> "", bytes |-> PackerFlush(PackAll(PackerNew, calls))]

----------------------------------------------------------------------------
(* decompress, one loop iteration at a time *)

\* the locals before decompress has set them
NoDec == [unpacker |-> UnpackerNew(<<>>), codes_to_read |-> 0, coding_dict |-> <<>>,
          symbols_to_read |-> <<>>, declared |-> <<>>, decompressed |-> <<>>,
          bit_string |-> <<>>]

\* lines 186-188
DecompressBegin(bytes) ==
    LET r == unpack(UnpackerNew(bytes), 8)
    IN IF r.failed THEN [failed |-> TRUE, dec |-> NoDec]
       ELSE [failed |-> FALSE,
             dec |-> [NoDec EXCEPT !.unpacker = r.unpacker,
                                   !.codes_to_read = BitsValue(r.bit_string) + 1]]

\* lines 191-195
DecompressCode(d) ==
    LET r1 == unpack(d.unpacker, 8)
        symbol == BitsValue(r1.bit_string)
        r2 == unpack(r1.unpacker, 8)
        code_length == BitsValue(r2.bit_string)
        r3 == unpack(r2.unpacker, code_length)
        code == r3.bit_string
    IN IF r1.failed \/ r2.failed \/ r3.failed THEN [failed |-> TRUE, dec |-> d]
       ELSE [failed |-> FALSE,
             dec |-> [d EXCEPT !.unpacker = r3.unpacker,
                               !.coding_dict = (code :> symbol) @@ d.coding_dict,
                               !.codes_to_read = d.codes_to_read - 1]]

\* int(s, 2) of the up to 32 digits of the total_symbols field: up to 2^32 - 1, so
\* a big number like the Packer buffer (the digits without the leading zeros)
CountValue(s) == BigNorm(s)

\* n - 1 for a big number n > 0
RECURSIVE BigDec(_)
BigDec(b) ==
    IF b[Len(b)] = 1
    THEN BigNorm(SubSeq(b, 1, Len(b) - 1) \o <<0>>)
    ELSE BigDec(SubSeq(b, 1, Len(b) - 1)) \o <<1>>

\* lines 197-199
DecompressTotal(d) ==
    LET r == unpack(d.unpacker, 32)
    IN IF r.failed THEN [failed |-> TRUE, dec |-> d]
       ELSE [failed |-> FALSE,
             dec |-> [d EXCEPT !.unpacker = r.unpacker,
                               !.symbols_to_read = CountValue(r.bit_string),
                               !.declared = CountValue(r.bit_string),
                               !.decompressed = <<>>,
                               !.bit_string = <<>>]]

\* the loop body with symbols_to_read lowered for every bit, matched or not
DecompressBitEveryBit(d) ==
    LET r == unpack(d.unpacker, 1)
        bit_string == d.bit_string \o r.bit_string
    IN IF r.failed THEN [failed |-> TRUE, dec |-> d]
       ELSE IF bit_string \in DOMAIN d.coding_dict
       THEN [failed |-> FALSE,
             dec |-> [d EXCEPT !.unpacker = r.unpacker,
                               !.decompressed = Append(d.decompressed,
                                                       d.coding_dict[bit_string]),
                               !.bit_string = <<>>,
                               !.symbols_to_read = BigDec(d.symbols_to_read)]]
       ELSE [failed |-> FALSE,
             dec |-> [d EXCEPT !.unpacker = r.unpacker, !.bit_string = bit_string,
                               !.symbols_to_read = BigDec(d.symbols_to_read)]]

\* lines 201-206
DecompressBit(d) ==
    LET r == unpack(d.unpacker, 1)
        bit_string == d.bit_string \o r.bit_string
    IN IF r.failed THEN [failed |-> TRUE, dec |-> d]
       ELSE IF bit_string \in DOMAIN d.coding_dict
       THEN [failed |-> FALSE,
             dec |-> [d EXCEPT !.unpacker = r.unpacker,
                               !.decompressed = Append(d.decompressed,
                                                       d.coding_dict[bit_string]),
                               !.bit_string = <<>>,
                               !.symbols_to_read = BigDec(d.symbols_to_read)]]
       ELSE [failed |-> FALSE,
             dec |-> [d EXCEPT !.unpacker = r.unpacker, !.bit_string = bit_string]]

----------------------------------------------------------------------------
(* The Packer driven by pack and flush calls. *)

NoFlush == [done |-> FALSE, bytes |-> <<>>, calls |-> <<>>]
NoUnpack == [called |-> FALSE, failed |-> FALSE, length |-> 0, remaining |-> 0,
             bit_string |-> <<>>]

\* the variables of the parts a specification does not drive
IdlePacker ==
    /\ packer = PackerNew
    /\ packed = <<>>
    /\ flushed = NoFlush
    /\ packError = FALSE

IdleUnpacker ==
    /\ unpacker = UnpackerNew(<<>>)
    /\ unpacked = NoUnpack

IdleCodec ==
    /\ pc = "idle"
    /\ data = <<>>
    /\ nodes = <<>>
    /\ blob = <<>>
    /\ kind = "intact"
    /\ dec = NoDec

InitPacker ==
    /\ packer = PackerNew
    /\ packed = <<>>
    /\ flushed = NoFlush
    /\ packError = FALSE
    /\ IdleUnpacker
    /\ IdleCodec

Pack(content, length) ==
    /\ Len(packed) < MaxPacks
    /\ PackFits(content, length)
    /\ packer' = PackerPack(packer, content, length)
    /\ packed' = Append(packed, <<content, length>>)
    /\ packError' = FALSE
    /\ flushed' = NoFlush
    /\ UNCHANGED <<unpackerVars, codecVars>>

PackRejected(content, length) ==
    /\ ~PackFits(content, length)
    /\ packError' = TRUE
    /\ UNCHANGED <<packer, packed, flushed, unpackerVars, codecVars>>

Flush ==
    /\ flushed' = [done |-> TRUE, bytes |-> PackerFlush(packer), calls |-> packed]
    /\ packer' = PackerNew
    /\ packed' = <<>>
    /\ packError' = FALSE
    /\ UNCHANGED <<unpackerVars, codecVars>>

NextPacker ==
    \/ \E content \in PackValues, length \in PackWidths : Pack(content, length)
    \/ \E content \in PackValues, length \in PackWidths : PackRejected(content, length)
    \/ Flush

SpecPacker == InitPacker /\ [][NextPacker]_vars

----------------------------------------------------------------------------
(* The Unpacker driven by unpack calls. *)

RECURSIVE ByteSeqs(_)
ByteSeqs(n) ==
    IF n = 0 THEN {<<>>}
    ELSE LET shorter == ByteSeqs(n - 1)
         IN shorter \cup {Append(s, b) : s \in {t \in shorter : Len(t) = n - 1},
                                         b \in StreamBytes}

InitUnpacker ==
    /\ \E bs \in ByteSeqs(MaxBytes) : unpacker = UnpackerNew(bs)
    /\ unpacked = NoUnpack
    /\ IdlePacker
    /\ IdleCodec

\* the bits not read yet
Remaining(u) ==
    IF u.bit_index >= Len(u.data_bit_string) THEN 0
    ELSE Len(u.data_bit_string) - u.bit_index

Unpack(length) ==
    LET r == unpack(unpacker, length)
    IN /\ ~r.failed
       /\ unpacked' = [called |-> TRUE, failed |-> FALSE, length |-> length,
                       remaining |-> Remaining(unpacker), bit_string |-> r.bit_string]
       /\ unpacker' = r.unpacker
       /\ UNCHANGED <<packerVars, codecVars>>

UnpackRejected(length) ==
    LET r == unpack(unpacker, length)
    IN /\ r.failed
       /\ unpacked' = [called |-> TRUE, failed |-> TRUE, length |-> length,
                       remaining |-> Remaining(unpacker), bit_string |-> r.bit_string]
       /\ unpacker' = r.unpacker
       /\ UNCHANGED <<packerVars, codecVars>>

NextUnpacker ==
    \/ \E length \in UnpackWidths : Unpack(length)
    \/ \E length \in UnpackWidths : UnpackRejected(length)

SpecUnpacker == InitUnpacker /\ [][NextUnpacker]_vars

----------------------------------------------------------------------------
(* compress of an input, then decompress of the blob or of a prefix of it. *)

RECURSIVE SeqsUpTo(_, _)
SeqsUpTo(S, n) ==
    IF n = 0 THEN {<<>>}
    ELSE LET shorter == SeqsUpTo(S, n - 1)
         IN shorter \cup {Append(s, b) : s \in {t \in shorter : Len(t) = n - 1}, b \in S}

Inputs == SeqsUpTo(Alphabet, MaxLen) \cup {Example}

Init ==
    /\ pc = "start"
    /\ data \in Inputs
    /\ nodes = <<>>
    /\ blob = <<>>
    /\ kind = "intact"
    /\ dec = NoDec
    /\ IdlePacker
    /\ IdleUnpacker

\* lines 126-131: one leaf per symbol, in the order the set is iterated
MakeLeaves ==
    /\ pc = "start"
    /\ \E order \in Orders(SymbolsOf(data)) :
           nodes' = [i \in DOMAIN order |-> Leaf(Count(data, order[i]), order[i])]
    /\ pc' = "merge"
    /\ UNCHANGED <<data, blob, kind, dec, packerVars, unpackerVars>>

\* lines 133-142
Merge ==
    /\ pc = "merge"
    /\ Len(nodes) > 1
    /\ nodes' = MergeNodes(nodes)
    /\ UNCHANGED <<pc, data, blob, kind, dec, packerVars, unpackerVars>>

\* line 144: nodes[0] raises IndexError on the empty list
SetRoot ==
    /\ pc = "merge"
    /\ Len(nodes) <= 1
    /\ pc' = IF nodes = <<>> THEN "init_failed" ELSE "built"
    /\ UNCHANGED <<data, nodes, blob, kind, dec, packerVars, unpackerVars>>

Compress ==
    /\ pc = "built"
    /\ LET r == compress(CodingDict, data)
       IN /\ pc' = IF r.ok THEN "compressed" ELSE "compress_failed"
          /\ blob' = r.bytes
    /\ UNCHANGED <<data, nodes, kind, dec, packerVars, unpackerVars>>

\* the blob is cut at a byte boundary before it is decompressed
Truncate ==
    /\ pc = "compressed"
    /\ kind = "intact"
    /\ \E k \in 0..(Len(blob) - 1) : blob' = SubSeq(blob, 1, k)
    /\ kind' = "truncated"
    /\ UNCHANGED <<pc, data, nodes, dec, packerVars, unpackerVars>>

\* one byte of the blob is replaced before it is decompressed
Corrupt ==
    /\ pc = "compressed"
    /\ kind = "intact"
    /\ \E i \in DOMAIN blob, b \in CorruptBytes :
           /\ blob[i] # b
           /\ blob' = [blob EXCEPT ![i] = b]
    /\ kind' = "corrupted"
    /\ UNCHANGED <<pc, data, nodes, dec, packerVars, unpackerVars>>

DecompressStep(r, next) ==
    /\ pc' = IF r.failed THEN "decompress_failed" ELSE next
    /\ dec' = r.dec
    /\ UNCHANGED <<data, nodes, blob, kind, packerVars, unpackerVars>>

Begin ==
    /\ pc = "compressed"
    /\ DecompressStep(DecompressBegin(blob), "table")

ReadCode ==
    /\ pc = "table"
    /\ dec.codes_to_read # 0
    /\ DecompressStep(DecompressCode(dec), "table")

ReadTotal ==
    /\ pc = "table"
    /\ dec.codes_to_read = 0
    /\ DecompressStep(DecompressTotal(dec), "payload")

ReadBit ==
    /\ pc = "payload"
    /\ dec.symbols_to_read # <<>>
    /\ DecompressStep(DecompressBit(dec), "payload")

Return ==
    /\ pc = "payload"
    /\ dec.symbols_to_read = <<>>
    /\ pc' = "returned"
    /\ UNCHANGED <<data, nodes, blob, kind, dec, packerVars, unpackerVars>>

Next ==
    \/ MakeLeaves
    \/ Merge
    \/ SetRoot
    \/ Compress
    \/ Truncate
    \/ Corrupt
    \/ Begin
    \/ ReadCode
    \/ ReadTotal
    \/ ReadBit
    \/ Return

Spec == Init /\ [][Next]_vars

----------------------------------------------------------------------------
(* What the claims are stated with. *)

\* value written as exactly width bits, most significant bit first
RECURSIVE FixedBits(_, _)
FixedBits(value, width) ==
    IF width = 0 THEN <<>> ELSE Append(FixedBits(value \div 2, width - 1), value % 2)

RECURSIVE CallsBits(_)
CallsBits(calls) ==
    IF calls = <<>> THEN <<>>
    ELSE FixedBits(Head(calls)[1], Head(calls)[2]) \o CallsBits(Tail(calls))

RECURSIVE CallsWidth(_)
CallsWidth(calls) ==
    IF calls = <<>> THEN 0 ELSE Head(calls)[2] + CallsWidth(Tail(calls))

IsPrefix(a, b) == Len(a) <= Len(b) /\ SubSeq(b, 1, Len(a)) = a

AllZero(s) == \A i \in DOMAIN s : s[i] = 0

Max(a, b) == IF a > b THEN a ELSE b

\* the tree is built: __init__ has returned
TreeBuilt == pc \in {"built", "compressed", "compress_failed"}

SingleSymbol == Cardinality(SymbolsOf(data)) = 1

RECURSIVE EntriesBits(_)
EntriesBits(table) ==
    IF table = <<>> THEN <<>>
    ELSE FixedBits(Head(table)[1], 8) \o FixedBits(Len(Head(table)[2]), 8)
             \o Head(table)[2] \o EntriesBits(Tail(table))

RECURSIVE PayloadBits(_, _)
PayloadBits(table, d) ==
    IF d = <<>> THEN <<>>
    ELSE DictGet(table, Head(d)) \o PayloadBits(table, Tail(d))

\* the container of section 6, without the padding
Layout(table, d) ==
    FixedBits(Cardinality(SymbolsOf(d)) - 1, 8) \o EntriesBits(table)
        \o FixedBits(Len(d), 32) \o PayloadBits(table, d)

----------------------------------------------------------------------------
(* The claims. *)

\* C1: for every non-empty input, compress succeeds and decompress of the blob it
\* returns succeeds and returns exactly the input.
C1_RoundTrip ==
    (data # <<>> /\ kind = "intact") =>
        /\ pc \notin {"compress_failed", "decompress_failed"}
        /\ pc = "returned" => dec.decompressed = data

\* C2: for an input of one byte value repeated, the code table gives the symbol a
\* code of exactly 1 bit, compress succeeds and decompress returns the input.
C2_SingleSymbol ==
    (SingleSymbol /\ kind = "intact") =>
        /\ TreeBuilt => \A i \in DOMAIN CodingDict : Len(CodingDict[i][2]) = 1
        /\ pc \notin {"compress_failed", "decompress_failed"}
        /\ pc = "returned" => dec.decompressed = data

\* C3: unpack(width) with fewer than width unread bits fails, and an unpack(width)
\* that returns has returned exactly width bits.
C3_Exhaustion ==
    unpacked.called =>
        /\ unpacked.remaining < unpacked.length => unpacked.failed
        /\ ~unpacked.failed => Len(unpacked.bit_string) = unpacked.length

\* C4: when the bits run out in the payload loop with symbols still to read,
\* decompress fails; when decompress returns, it returns as many bytes as the
\* total_symbols it read.
C4_DeclaredCount ==
    [][/\ (pc = "payload" /\ dec.symbols_to_read # <<>> /\ is_empty(dec.unpacker))
              => pc' = "decompress_failed"
       /\ pc' = "returned" => IntToBig(Len(dec'.decompressed)) = dec'.declared]_vars

\* C4 witness: the payload ran out after some symbols, fewer than declared
C4_Witness ==
    /\ pc = "decompress_failed"
    /\ is_empty(dec.unpacker)
    /\ Len(dec.decompressed) > 0
    /\ Len(dec.declared) <= 8
    /\ Len(dec.decompressed) < BitsValue(dec.declared)

\* C5: flush returns the bytes whose bits are the packed values in call order, each
\* as exactly its width bits, then (8 - L mod 8) mod 8 zero bits, L the total width.
C5_FlushLayout ==
    flushed.done =>
        LET L == CallsWidth(flushed.calls)
            bits == DataBitString(flushed.bytes)
        IN /\ bits = CallsBits(flushed.calls) \o Zeros((8 - (L % 8)) % 8)
           /\ Len(bits) % 8 = 0
           /\ Len(bits) - L < 8

\* C5 witness: three packs, one with leading zeros, ending off a byte boundary in
\* the second byte
C5_Witness ==
    /\ flushed.done
    /\ flushed.calls = << <<1, 3>>, <<5, 8>>, <<0, 1>> >>
    /\ flushed.bytes = <<32, 160>>

\* C6: no code of the table is a prefix of the code of another symbol.
C6_PrefixFree ==
    pc = "built" =>
        \A i, j \in DOMAIN CodingDict :
            i # j => ~IsPrefix(CodingDict[i][2], CodingDict[j][2])

\* C6 witness: a table of three codes of two lengths
C6_Witness ==
    /\ pc = "built"
    /\ Len(CodingDict) = 3
    /\ \E i, j \in DOMAIN CodingDict : Len(CodingDict[i][2]) < Len(CodingDict[j][2])

\* C7: with n distinct byte values in the input, every code has at most
\* max(1, n - 1) bits, and its length fits in 8 bits.
C7_CodeLength ==
    pc = "built" =>
        \A i \in DOMAIN CodingDict :
            /\ Len(CodingDict[i][2]) <= Max(1, Cardinality(SymbolsOf(data)) - 1)
            /\ PackFits(Len(CodingDict[i][2]), 8)

\* C7 witness: a code of n - 1 bits, n = 3
C7_Witness ==
    /\ pc = "built"
    /\ Cardinality(SymbolsOf(data)) = 3
    /\ \E i \in DOMAIN CodingDict : Len(CodingDict[i][2]) = 2

\* C8: the blob compress returns is the count of symbols minus 1 in 8 bits, an
\* entry per distinct symbol (symbol in 8 bits, code length in 8 bits, code), the
\* input length in 32 bits, the codes of the input in order, then 0 to 7 zero bits.
C8_Container ==
    (pc = "compressed" /\ kind = "intact") =>
        LET bits == DataBitString(blob)
            body == Layout(CodingDict, data)
        IN /\ {CodingDict[i][1] : i \in DOMAIN CodingDict} = SymbolsOf(data)
           /\ Len(CodingDict) = Cardinality(SymbolsOf(data))
           /\ Len(bits) - Len(body) \in 0..7
           /\ SubSeq(bits, 1, Len(body)) = body
           /\ AllZero(SubSeq(bits, Len(body) + 1, Len(bits)))

\* C8 witness: AAAAABBBBCCCDD, 4 symbols declared and total_symbols 14
C8_Witness ==
    /\ pc = "compressed"
    /\ kind = "intact"
    /\ data = Example
    /\ blob[1] = 3
    /\ SubSeq(DataBitString(blob), 81, 112) = FixedBits(14, 32)

\* C9: a merge removes two nodes whose counts are at most the count of every node
\* left, appends a node with the two as children and the sum of their counts; the
\* loop ends with one root whose count is the input length.
C9_MergeStep ==
    /\ [][(pc = "merge" /\ pc' = "merge") =>
            LET parent == nodes'[Len(nodes')]
                remaining == SubSeq(nodes', 1, Len(nodes') - 1)
                before == {nodes[i] : i \in DOMAIN nodes}
                after == {remaining[i] : i \in DOMAIN remaining}
            IN /\ Len(nodes') = Len(nodes) - 1
               /\ parent.content = None
               /\ parent.left # parent.right
               /\ before = after \cup {parent.left, parent.right}
               /\ Cardinality(after) = Len(nodes) - 2
               /\ \A n \in after : /\ parent.left.occurences <= n.occurences
                                   /\ parent.right.occurences <= n.occurences
               /\ parent.occurences
                      = parent.left.occurences + parent.right.occurences]_vars
    /\ [](pc = "built" => Len(nodes) = 1 /\ Root.occurences = Len(data))

\* C9 witness: a merge has left two nodes beside the new one
C9_Witness ==
    /\ pc = "merge"
    /\ Len(nodes) = 3
    /\ nodes[3].content = None

\* C10: decompress of a proper prefix of a blob of compress, cut at a byte
\* boundary, fails.
C10_TruncationDetected == kind = "truncated" => pc # "returned"

====
